---------------------------- MODULE Spec2Model ----------------------------
(***************************************************************************)
(* A model of mp3-duration's scanner (src/src/lib.rs, from_read): the      *)
(* lookup tables, the header decoder, the 64-bit duration arithmetic and   *)
(* the scan loop, one action per read of the loop.                         *)
(*                                                                         *)
(* Bytes are numbers 0..255 and buffers are tuples of bytes.  A u32 or u64 *)
(* that does not fit the model checker's integers is kept as a tuple of    *)
(* base-256 limbs, least significant first, and the arithmetic on it is    *)
(* done limb by limb, so that a product wider than 64 bits is visible.     *)
(***************************************************************************)
EXTENDS Integers, Sequences, FiniteSets, TLC

(***************************************************************************)
(* Bounds of the model.                                                    *)
(***************************************************************************)
\* A new block may start only while bytes_read <= MaxOffset.
MaxOffset == 28
\* At most MaxZeros bytes of 0x00 are fed to the zero-skipping loop.
MaxZeros == 2
\* Bytes of the stream left unread behind a Xing/Info frame: 0..MaxFollowing.
MaxFollowing == 1
\* The reader of a Context on its own holds at most MaxReader bytes.
MaxReader == 4

(***************************************************************************)
(* Tables (lib.rs 98-162).  Rows are indexed by `version as usize`,        *)
(* `layer as usize`, `mode as usize`; TLA+ tuples start at 1, hence the +1 *)
(* in the lookups.                                                         *)
(***************************************************************************)
Mpeg1 == 0
Mpeg2 == 1
Mpeg25 == 2

NotDefined == 0
Layer1 == 1
Layer2 == 2
Layer3 == 3

Stereo == 0
JointStereo == 1
DualChannel == 2
Mono == 3

ZeroRow == <<0, 0, 0, 0, 0, 0, 0, 0, 0, 0, 0, 0, 0, 0, 0, 0>>

BIT_RATES ==
    << << ZeroRow,
          <<0, 32, 64, 96, 128, 160, 192, 224, 256, 288, 320, 352, 384, 416, 448, 0>>,
          <<0, 32, 48, 56, 64, 80, 96, 112, 128, 160, 192, 224, 256, 320, 384, 0>>,
          <<0, 32, 40, 48, 56, 64, 80, 96, 112, 128, 160, 192, 224, 256, 320, 0>> >>,
       << ZeroRow,
          <<0, 32, 48, 56, 64, 80, 96, 112, 128, 144, 160, 176, 192, 224, 256, 0>>,
          <<0, 8, 16, 24, 32, 40, 48, 56, 64, 80, 96, 112, 128, 144, 160, 0>>,
          <<0, 8, 16, 24, 32, 40, 48, 56, 64, 80, 96, 112, 128, 144, 160, 0>> >>,
       << ZeroRow,
          <<0, 32, 48, 56, 64, 80, 96, 112, 128, 144, 160, 176, 192, 224, 256, 0>>,
          <<0, 8, 16, 24, 32, 40, 48, 56, 64, 80, 96, 112, 128, 144, 160, 0>>,
          <<0, 8, 16, 24, 32, 40, 48, 56, 64, 80, 96, 112, 128, 144, 160, 0>> >> >>

SAMPLING_RATES ==
    << <<44100, 48000, 32000, 0>>,
       <<22050, 24000, 16000, 0>>,
       <<11025, 12000, 8000, 0>> >>

SAMPLES_PER_FRAME ==
    << <<0, 384, 1152, 1152>>,
       <<0, 384, 1152, 576>>,
       <<0, 384, 1152, 576>> >>

SIDE_INFORMATION_SIZES ==
    << <<32, 32, 32, 17>>,
       <<17, 17, 17, 9>>,
       <<17, 17, 17, 9>> >>

(***************************************************************************)
(* Results of the fallible lookups: Ok(value) or Err(kind, code).          *)
(***************************************************************************)
Ok(v) == [ok |-> TRUE, value |-> v, kind |-> "", code |-> 0]
Err(k, c) == [ok |-> FALSE, value |-> 0, kind |-> k, code |-> c]

\* lib.rs 164-182
get_bitrate(version, layer, encoded_bitrate) ==
    IF encoded_bitrate >= 15
    THEN Err("InvalidBitrate", encoded_bitrate)
    ELSE IF layer = NotDefined
         THEN Err("ForbiddenLayer", 0)
         ELSE Ok(1000 * BIT_RATES[version + 1][layer + 1][encoded_bitrate + 1])

\* get_sampling_rate without the test of the code
get_sampling_rate_unchecked(v, r) == Ok(SAMPLING_RATES[v + 1][r + 1])

\* lib.rs 184-198
get_sampling_rate(version, encoded_sampling_rate) ==
    IF encoded_sampling_rate >= 3
    THEN Err("InvalidSamplingRate", encoded_sampling_rate)
    ELSE Ok(SAMPLING_RATES[version + 1][encoded_sampling_rate + 1])

\* get_samples_per_frame without the test of the layer
get_samples_per_frame_unchecked(v, l) == Ok(SAMPLES_PER_FRAME[v + 1][l + 1])

\* lib.rs 200-209
get_samples_per_frame(version, layer) ==
    IF layer = NotDefined
    THEN Err("ForbiddenLayer", 0)
    ELSE Ok(SAMPLES_PER_FRAME[version + 1][layer + 1])

\* lib.rs 211-213
get_side_information_size(version, mode) ==
    SIDE_INFORMATION_SIZES[version + 1][mode + 1]

(***************************************************************************)
(* The 4-byte header as a big-endian u32 (lib.rs 268-271) and its bit      *)
(* fields.  The word itself can exceed the checker's integers, so a field  *)
(* (header >> shift) & (2^width - 1) is read bit by bit from the bytes.    *)
(***************************************************************************)
Pow2(n) == 2 ^ n

\* bit i (0 = least significant) of the word whose bytes are hb[1..4]
HeaderBit(hb, i) == (hb[4 - (i \div 8)] \div Pow2(i % 8)) % 2

RECURSIVE HeaderField(_, _, _)
HeaderField(hb, shift, width) ==
    IF width = 0
    THEN 0
    ELSE HeaderBit(hb, shift) + 2 * HeaderField(hb, shift + 1, width - 1)

\* header read with the first byte as the least significant one
header_little_endian(hb) == hb

\* lib.rs 268-271: the header as u32, given by its 4 bytes from the least
\* significant one up, as the other values beyond the checker's integers are
header(hb) == <<hb[4], hb[3], hb[2], hb[1]>>

\* lib.rs 272: header >> 21 == 0x7FF
is_mp3(hb) == HeaderField(hb, 21, 11) = 2047

\* lib.rs 274-280: the version, or the reserved pattern 01
VersionBits(hb) == HeaderField(hb, 19, 2)

\* VersionOf with the reserved code 01 taken for MPEG 2
VersionOfLenient(hb) ==
    CASE VersionBits(hb) = 0 -> Ok(Mpeg25)
      [] VersionBits(hb) = 1 -> Ok(Mpeg2)
      [] VersionBits(hb) = 2 -> Ok(Mpeg2)
      [] VersionBits(hb) = 3 -> Ok(Mpeg1)

VersionOf(hb) ==
    CASE VersionBits(hb) = 0 -> Ok(Mpeg25)
      [] VersionBits(hb) = 1 -> Err("ForbiddenVersion", 0)
      [] VersionBits(hb) = 2 -> Ok(Mpeg2)
      [] VersionBits(hb) = 3 -> Ok(Mpeg1)

\* lib.rs 282-288
LayerBits(hb) == HeaderField(hb, 17, 2)
LayerOf(hb) ==
    CASE LayerBits(hb) = 0 -> NotDefined
      [] LayerBits(hb) = 1 -> Layer3
      [] LayerBits(hb) = 2 -> Layer2
      [] LayerBits(hb) = 3 -> Layer1

\* lib.rs 290-292
encoded_bitrate(hb) == HeaderField(hb, 12, 4)
encoded_sampling_rate(hb) == HeaderField(hb, 10, 2)
padding(hb) == IF 0 # HeaderField(hb, 9, 1) THEN 1 ELSE 0

\* lib.rs 294-300: the four codes map to Mode in declaration order
ModeOf(hb) == HeaderField(hb, 6, 2)

(***************************************************************************)
(* Unsigned arithmetic on limbs.  A number is a tuple of base-256 limbs,   *)
(* least significant first; a u64 has 8 of them.                           *)
(***************************************************************************)
RECURSIVE ToLimbs(_, _)
ToLimbs(n, k) ==
    IF k = 0 THEN <<>> ELSE <<n % 256>> \o ToLimbs(n \div 256, k - 1)

\* the value of a limb tuple that is known to fit the checker's integers
RECURSIVE LimbsValue(_)
LimbsValue(a) ==
    IF a = <<>> THEN 0 ELSE a[1] + 256 * LimbsValue(Tail(a))

LimbAt(a, i) == IF i >= 1 /\ i <= Len(a) THEN a[i] ELSE 0

\* sum of a[i] * b[k + 1 - i] for i in lo..hi: one column of the long product
RECURSIVE ProductColumn(_, _, _, _, _)
ProductColumn(a, b, k, lo, hi) ==
    IF lo > hi
    THEN 0
    ELSE a[lo] * b[k + 1 - lo] + ProductColumn(a, b, k, lo + 1, hi)

RECURSIVE CarryColumns(_, _, _, _, _)
CarryColumns(a, b, k, n, carry) ==
    IF k > n
    THEN <<>>
    ELSE LET lo == IF k > Len(b) THEN k + 1 - Len(b) ELSE 1
             hi == IF k < Len(a) THEN k ELSE Len(a)
             t == ProductColumn(a, b, k, lo, hi) + carry
         IN  <<t % 256>> \o CarryColumns(a, b, k + 1, n, t \div 256)

\* the exact product, Len(a) + Len(b) limbs wide
MulLimbs(a, b) == CarryColumns(a, b, 1, Len(a) + Len(b), 0)

\* floor(a / d) for a divisor that fits the checker's integers (d < 2^23)
RECURSIVE DivLimbs(_, _, _, _)
DivLimbs(a, i, d, rem) ==
    IF i = 0
    THEN <<>>
    ELSE LET cur == rem * 256 + a[i]
         IN  Append(DivLimbs(a, i - 1, d, cur % d), cur \div d)

\* a - b modulo 256^Len(a), as a wrapping subtraction computes it
RECURSIVE SubLimbs(_, _, _, _)
SubLimbs(a, b, i, borrow) ==
    IF i > Len(a)
    THEN <<>>
    ELSE LET t == a[i] - LimbAt(b, i) - borrow
         IN  <<(t + 256) % 256>> \o SubLimbs(a, b, i + 1, IF t < 0 THEN 1 ELSE 0)

\* a value as a u64: its low 8 limbs, and whether anything was lost
Wrap64(a) ==
    <<LimbAt(a, 1), LimbAt(a, 2), LimbAt(a, 3), LimbAt(a, 4),
      LimbAt(a, 5), LimbAt(a, 6), LimbAt(a, 7), LimbAt(a, 8)>>
Overflows64(a) == \E i \in 9..Len(a) : a[i] # 0

\* `n as u64` for a u32 n that fits the checker's integers: the upper 4
\* limbs of the u64 are 0 and are left out of the products
U64(n) == ToLimbs(n, 4)
U64Div(a, d) == DivLimbs(a, Len(a), d, 0)
U64Sub(a, b) == SubLimbs(a, b, 1, 0)

\* lib.rs 334, 363: 1_000_000_000
Billion == 1000000000

(***************************************************************************)
(* std::time::Duration as whole seconds plus nanoseconds below a billion.  *)
(***************************************************************************)
Dur(s, n) == [secs |-> s, nanos |-> n]
ZeroDuration == Dur(0, 0)

\* k * 1_000_000_000 as (high 16 bits.., low 16 bits), for k in 0..4
BillionTimesHi(k) == k * (Billion \div 65536) + (k * (Billion % 65536)) \div 65536
BillionTimesLo(k) == (k * (Billion % 65536)) % 65536

\* Duration::new(secs, nanos) for a u32 nanos given as 4 limbs: whole
\* seconds of nanos are carried into secs (lib.rs 338)
DurationNew(secs, nanos4) ==
    LET hi == nanos4[4] * 256 + nanos4[3]
        lo == nanos4[2] * 256 + nanos4[1]
        AtLeast(k) == \/ hi > BillionTimesHi(k)
                      \/ hi = BillionTimesHi(k) /\ lo >= BillionTimesLo(k)
        q == Cardinality({k \in 1..4 : AtLeast(k)})
    IN  Dur(secs + q, (hi - BillionTimesHi(q)) * 65536 + lo - BillionTimesLo(q))

\* duration += rhs (lib.rs 364)
DurationAdd(d, rhs) ==
    LET n == d.nanos + rhs.nanos
    IN  IF n >= Billion
        THEN Dur(d.secs + rhs.secs + 1, n - Billion)
        ELSE Dur(d.secs + rhs.secs, n)

\* frame_duration in microseconds
frame_duration_in_micros(s, r) == (s * 1000000) \div r

\* lib.rs 363: (num_samples as u64 * 1_000_000_000) / (sampling_rate as u64)
frame_duration(num_samples, sampling_rate) ==
    LimbsValue(U64Div(Wrap64(MulLimbs(U64(num_samples), U64(Billion))), sampling_rate))

(***************************************************************************)
(* The Xing/Info fast path (lib.rs 329-338).  num_frames is the 4 limbs of *)
(* the big-endian count.  billion * frames_x_samples is a u64 product: a   *)
(* build with overflow checks panics when it does not fit, a build without *)
(* them goes on with the low 64 bits.                                      *)
(***************************************************************************)
frames_x_samples(num_frames, num_samples) ==
    Wrap64(MulLimbs(num_frames, U64(num_samples)))

XingOverflows(num_frames, num_samples) ==
    Overflows64(MulLimbs(U64(Billion), frames_x_samples(num_frames, num_samples)))

XingSeconds(num_frames, num_samples, rate) ==
    LimbsValue(U64Div(frames_x_samples(num_frames, num_samples), rate))

XingNanoseconds(num_frames, num_samples, rate) ==
    LET fxs == frames_x_samples(num_frames, num_samples)
        seconds == U64Div(fxs, rate)
    IN  U64Sub(U64Div(Wrap64(MulLimbs(U64(Billion), fxs)), rate),
               Wrap64(MulLimbs(U64(Billion), seconds)))

\* Duration::new(seconds, nanoseconds as u32)
XingDuration(num_frames, num_samples, rate) ==
    DurationNew(XingSeconds(num_frames, num_samples, rate),
                SubSeq(XingNanoseconds(num_frames, num_samples, rate), 1, 4))

(***************************************************************************)
(* Bytes the source can deliver.  The content of the stream is chosen as   *)
(* the scanner reads it; what the scanner only skips has no content.       *)
(***************************************************************************)
\* an audio header: sync, version, layer, no CRC, bitrate, rate, padding, mode
MkHeader(v, l, br, sr, pad, mode) ==
    <<255, 224 + 8 * v + 2 * l + 1, 16 * br + 4 * sr + 2 * pad, 64 * mode>>

VersionCodes == 0..3
LayerCodes == 0..3
BitrateCodes == {0, 1, 15}
RateCodes == {0, 3}
PaddingBits == {0, 1}
ModeCodes == {0, 3}

AudioHeaders ==
    {MkHeader(v, l, br, sr, pad, mode) :
        v \in VersionCodes, l \in LayerCodes, br \in BitrateCodes,
        sr \in RateCodes, pad \in PaddingBits, mode \in ModeCodes}

\* "ID3" 3, "TAG" ' ', "APET"
Id3v2Header == <<73, 68, 51, 3>>
Id3v1Header == <<84, 65, 71, 32>>
ApeHeader == <<65, 80, 69, 84>>
\* neither audio nor a tag: the start of a JPEG file, and "APEX"
JunkHeaders == {<<255, 216, 255, 224>>, <<65, 80, 69, 88>>}

Headers == AudioHeaders \cup {Id3v2Header, Id3v1Header, ApeHeader} \cup JunkHeaders
\* a byte of 0x00, or the first byte of a header
FirstBytes == {0} \cup {h[1] : h \in Headers}

\* the 12 bytes behind the side information: magic, 3 bytes, flags, count
XingMagic == <<88, 105, 110, 103>>
InfoMagic == <<73, 110, 102, 111>>
\* 15242, 16012798 (the largest count whose product fits at 1152 samples
\* per frame), 16012799, 2^32 - 1
FrameCounts ==
    {<<0, 0, 59, 138>>, <<0, 244, 85, 254>>, <<0, 244, 85, 255>>,
     <<255, 255, 255, 255>>}

XingBuffers ==
    {XingMagic \o <<0, 0, 0, 1>> \o c : c \in FrameCounts}
    \cup {InfoMagic \o <<0, 0, 0, 1>> \o <<0, 0, 0, 0>>}
    \cup {XingMagic \o <<0, 0, 0, 15>> \o <<0, 0, 59, 138>>,
          XingMagic \o <<0, 0, 0, 0>> \o <<0, 0, 59, 138>>,
          InfoMagic \o <<0, 0, 0, 14>> \o <<0, 0, 59, 138>>,
          <<76, 65, 77, 69>> \o <<0, 0, 0, 1>> \o <<0, 0, 59, 138>>,
          <<0, 0, 0, 0, 0, 0, 0, 0, 0, 0, 0, 0>>}

\* the 6 bytes behind "ID3" v: revision, flags, 4 size bytes
Id3Flags == {0, 16}
Id3Sizes ==
    {<<0, 0, 0, 0>>, <<0, 0, 2, 1>>, <<0, 0, 0, 128>>, <<0, 0, 1, 128>>,
     <<0, 0, 129, 0>>, <<0, 128, 0, 0>>, <<128, 0, 0, 0>>}
Id3v2Buffers == {<<0, f>> \o sz : f \in Id3Flags, sz \in Id3Sizes}

\* the 12 bytes behind "APET": "AGEX", version, little-endian size
ApeSizes == {<<0, 0, 0, 0>>, <<2, 0, 0, 0>>, <<0, 1, 0, 0>>, <<0, 0, 0, 1>>}
ApeBuffers ==
    {<<65, 71, 69, 88>> \o <<208, 7, 0, 0>> \o sz : sz \in ApeSizes}
    \cup {<<65, 71, 69, 0>> \o <<208, 7, 0, 0>> \o <<2, 0, 0, 0>>}

(***************************************************************************)
(* What the blocks decode to.                                              *)
(***************************************************************************)
\* the locals of an audio frame (lib.rs 302-306), for a header that passed
\* the version, sampling-rate and layer checks
version(hb) == VersionOf(hb).value
layer(hb) == LayerOf(hb)
sampling_rate(hb) == get_sampling_rate(version(hb), encoded_sampling_rate(hb)).value
num_samples(hb) == get_samples_per_frame(version(hb), layer(hb)).value
xing_offset(hb) == get_side_information_size(version(hb), ModeOf(hb))

\* lib.rs 318-327
is_xing(xb) == SubSeq(xb, 1, 4) = XingMagic
is_info(xb) == SubSeq(xb, 1, 4) = InfoMagic
\* has_frames that takes the flag for set
has_frames_whatever_the_flag(xb) == TRUE

has_frames(xb) == 0 # (xb[8] % 2)
HasFrameCount(xb) == (is_xing(xb) \/ is_info(xb)) /\ has_frames(xb)
\* lib.rs 329-332, least significant limb first
num_frames(xb) == <<xb[12], xb[11], xb[10], xb[9]>>

\* frame_length without the padding byte
frame_length_without_padding(hb, bitrate) ==
    ((num_samples(hb) \div 8) * bitrate) \div sampling_rate(hb)

\* lib.rs 348: (num_samples / 8 * bitrate / sampling_rate + padding) as usize
frame_length(hb, bitrate) ==
    ((num_samples(hb) \div 8) * bitrate) \div sampling_rate(hb) + padding(hb)

\* header_buffer.len() + xing_offset + xing_buffer.len()
ConsumedInFrame(hb) == 4 + xing_offset(hb) + 12

\* bytes_to_next_frame with a subtraction that saturates at 0
saturating_bytes_to_next_frame(hb, br) ==
    IF frame_length(hb, br) >= ConsumedInFrame(hb)
    THEN Ok(frame_length(hb, br) - ConsumedInFrame(hb))
    ELSE Ok(0)

\* lib.rs 350-356: frame_length.checked_sub(..), None when it would go below 0
bytes_to_next_frame(hb, bitrate) ==
    IF frame_length(hb, bitrate) >= ConsumedInFrame(hb)
    THEN Ok(frame_length(hb, bitrate) - ConsumedInFrame(hb))
    ELSE Err("MPEGFrameTooShort", 0)

\* a | b on naturals
RECURSIVE BitOr(_, _)
BitOr(a, b) ==
    IF a = 0 THEN b
    ELSE IF b = 0 THEN a
    ELSE (IF a % 2 = 1 \/ b % 2 = 1 THEN 1 ELSE 0) + 2 * BitOr(a \div 2, b \div 2)

\* lib.rs 378-383
footer_size(id3) == IF 0 # ((id3[2] \div 16) % 2) THEN 10 ELSE 0
Id3TagSize(id3) ==
    BitOr(BitOr(id3[6], id3[5] * Pow2(7)),
          BitOr(id3[4] * Pow2(14), id3[3] * Pow2(21)))

\* lib.rs 413-416, 423-426
is_really_ape_v2(ape) == SubSeq(ape, 1, 4) = <<65, 71, 69, 88>>
ApeTagSize(ape) ==
    BitOr(BitOr(ape[9], ape[10] * Pow2(8)),
          BitOr(ape[11] * Pow2(16), ape[12] * Pow2(24)))

\* lib.rs 370-372, 392-394, 404-407
is_id3v2(hb) == SubSeq(hb, 1, 3) = <<73, 68, 51>>
is_id3v1(hb) == SubSeq(hb, 1, 3) = <<84, 65, 71>>
maybe_is_ape_v2(hb) == hb = <<65, 80, 69, 84>>

\* ErrorKindFrom without the case of ErrorKind::UnexpectedEof
ErrorKindAlwaysIo(e) == "IOError"

\* ErrorKindFrom that takes every io::Error for the end of the stream
ErrorKindAlwaysEof(e) == "UnexpectedEOF"

\* impl From<io::Error> for ErrorKind (lib.rs 56-63)
ErrorKindFrom(e) == IF e = "UnexpectedEof" THEN "UnexpectedEOF" ELSE "IOError"

(***************************************************************************)
(* The state of one call of from_read.                                     *)
(*   pc            where the call stands: "scan" (the zero-skipping loop,  *)
(*                 252), "header" (260), "classify" (268-437, the tests on *)
(*                 the header), "side" (310), "peek" (314), "measure"      *)
(*                 (318-356), "body" (358), "id3v2" (375), "id3v2skip"     *)
(*                 (384), "id3v1" (396), "ape" (410), "apeskip" (427),     *)
(*                 "done", "failed", "panicked"                            *)
(*   bytes_read, duration, header_buffer, xing_buffer, id3v2, ape_header   *)
(*                 the variables of the same names; a buffer that is local *)
(*                 to a block is <<>> outside it                           *)
(*   result        what from_read returned                                 *)
(* and, to state the properties, what the code does not keep:              *)
(*   pulled        bytes delivered by successful reads of the source       *)
(*   src_eof       the source has reported its end                         *)
(*   eof_at        the pc at which it first did so, or "none"              *)
(*   io_fault      the pc at which a read of the source failed with another *)
(*                 io::Error than UnexpectedEof, and the value of pulled    *)
(*                 then; the site is "none" while there was no such fault   *)
(*   block_start   the value of pulled before the first byte of the header *)
(*                 read last                                               *)
(*   blocks        the blocks consumed completely, in order: kind, header, *)
(*                 and the values of pulled before and behind the block    *)
(*   zeros         bytes of 0x00 skipped                                   *)
(*   following     bytes the stream holds behind the last one pulled when  *)
(*                 the Xing/Info fast path returned                        *)
(***************************************************************************)
VARIABLES pc, bytes_read, duration, header_buffer, xing_buffer, id3v2,
          ape_header, result, pulled, src_eof, eof_at, io_fault, block_start,
          blocks, zeros, following

\* one call of a lookup function on its own, outside a scan:
\*   call          the function, its arguments and what it returned
VARIABLES call

\* a Context of context.rs on its own, driven by a caller:
\*   context       the fields bytes_read, reached_eof and duration
\*   reader        the number of bytes the reader can still deliver
\*   returned      the call made last: the method, the number of bytes asked
\*                 for, the io::Error the reader raised during it ("none"
\*                 when it raised none) and the Result returned
VARIABLES context, reader, returned

\* what a call of a lookup function leaves alone besides the scan
cursor == <<context, reader, returned>>

\* what a scan leaves alone
others == <<call, context, reader, returned>>

\* what a call of a lookup function leaves alone
scan == <<pc, bytes_read, duration, header_buffer, xing_buffer, id3v2,
          ape_header, result, pulled, src_eof, eof_at, io_fault, block_start,
          blocks, zeros, following>>

vars == <<pc, bytes_read, duration, header_buffer, xing_buffer, id3v2,
          ape_header, result, pulled, src_eof, eof_at, io_fault, block_start,
          blocks, zeros, following, others>>

buffers == <<header_buffer, xing_buffer, id3v2, ape_header>>
ghosts == <<src_eof, eof_at, io_fault, block_start, blocks, zeros, following>>

NoResult ==
    [status |-> "none", kind |-> "", code |-> 0, header |-> <<>>,
     offset |-> 0, at_duration |-> ZeroDuration, duration |-> ZeroDuration,
     site |-> ""]

\* context.rs 15-22: Context::new
Context_new == [bytes_read |-> 0, reached_eof |-> FALSE, duration |-> ZeroDuration]

\* context.rs 55-61: Context::error, an MP3DurationError (error.rs 7-11)
Context_error(c, e) ==
    [ok |-> FALSE, kind |-> e, offset |-> c.bytes_read, at_duration |-> c.duration]

\* Ok(())
OkUnit == [ok |-> TRUE, kind |-> "", offset |-> 0, at_duration |-> ZeroDuration]

NoReturn == [op |-> "", n |-> 0, fault |-> "none", result |-> OkUnit]

\* no Context is in use
ContextIdle ==
    /\ context = Context_new
    /\ reader = 0
    /\ returned = NoReturn

\* Ok(duration)
Success(site, d) == [NoResult EXCEPT !.status = "Ok", !.duration = d, !.site = site]

\* MP3DurationError { kind, offset, at_duration } (lib.rs 12-17)
Failure(site, kind, code, hdr, off, d) ==
    [NoResult EXCEPT !.status = "Err", !.kind = kind, !.code = code,
                     !.header = hdr, !.offset = off, !.at_duration = d,
                     !.site = site]

\* no lookup is called on its own during a scan
Pending == Err("pending", 0)
NoCall == [fn |-> "", args |-> <<>>, ret |-> Pending]

\* lib.rs 243-247: the locals of from_read before the loop
ScanInit ==
    /\ pc = "scan"
    /\ bytes_read = 0
    /\ duration = ZeroDuration
    /\ header_buffer = <<0, 0, 0, 0>>
    /\ xing_buffer = <<>>
    /\ id3v2 = <<>>
    /\ ape_header = <<>>
    /\ result = NoResult
    /\ pulled = 0
    /\ src_eof = FALSE
    /\ eof_at = "none"
    /\ io_fault = [site |-> "none", pulled |-> 0]
    /\ block_start = 0
    /\ blocks = <<>>
    /\ zeros = 0
    /\ following = 0

Init ==
    /\ ScanInit
    /\ call = NoCall
    /\ ContextIdle

\* what reader.read_exact of n bytes can answer: nothing is asked of the
\* source for n = 0, and a source that has ended stays ended
ReadOutcomes(n) ==
    IF n = 0 THEN {"Ok"}
    ELSE IF src_eof THEN {"UnexpectedEof"}
    ELSE {"Ok", "UnexpectedEof", "Other"}

\* bail! that leaves the duration of ctx out of the error
BailAtZero(site, kind, code, hdr, off, d) ==
    /\ pc' = "failed"
    /\ result' = Failure(site, kind, code, hdr, off, ZeroDuration)

\* bail!(ctx, err) (lib.rs 65-73): return Err with the offset and duration of ctx
Bail(site, kind, code, hdr, off, d) ==
    /\ pc' = "failed"
    /\ result' = Failure(site, kind, code, hdr, off, d)

\* bail!(ctx, e) for an io::Error e
BailIo(site, e, off, d) ==
    /\ Bail(site, ErrorKindFrom(e), 0, <<>>, off, d)
    /\ src_eof' = (src_eof \/ e = "UnexpectedEof")
    /\ eof_at' = IF e = "UnexpectedEof" /\ eof_at = "none" THEN site ELSE eof_at
    /\ io_fault' = IF e = "Other" THEN [site |-> site, pulled |-> pulled] ELSE io_fault

\* `continue`: back to the head of the loop, where header_buffer[0] = 0
\* (lib.rs 250); the buffers of the block go out of scope
Continue(kind, last) ==
    /\ blocks' = Append(blocks, [kind |-> kind, header |-> header_buffer,
                                 first |-> block_start, last |-> last])
    /\ pc' = "scan"
    /\ header_buffer' = [header_buffer EXCEPT ![1] = 0]
    /\ xing_buffer' = <<>>
    /\ id3v2' = <<>>
    /\ ape_header' = <<>>

\* ReadFirstByte that leaves the bytes of 0x00 out of bytes_read
ReadFirstByteUncounted ==
    /\ pc = "scan"
    /\ \E e \in ReadOutcomes(1) :
         \/ /\ e = "Ok"
            /\ \E b \in FirstBytes :
                 /\ b = 0 => zeros < MaxZeros
                 /\ b # 0 => bytes_read <= MaxOffset
                 /\ header_buffer' = [header_buffer EXCEPT ![1] = b]
                 /\ zeros' = IF b = 0 THEN zeros + 1 ELSE zeros
                 /\ block_start' = IF b = 0 THEN block_start ELSE pulled
                 /\ pc' = IF b = 0 THEN "scan" ELSE "header"
            /\ bytes_read' = IF header_buffer'[1] = 0 THEN bytes_read ELSE bytes_read + 1
            /\ pulled' = pulled + 1
            /\ UNCHANGED <<duration, xing_buffer, id3v2, ape_header, result,
                           src_eof, eof_at, io_fault, blocks, following>>
         \/ /\ e = "UnexpectedEof"
            /\ pc' = "header"
            /\ src_eof' = TRUE
            /\ eof_at' = "scan"
            /\ UNCHANGED io_fault
            /\ UNCHANGED <<bytes_read, duration, buffers, result, pulled,
                           block_start, blocks, zeros, following>>
         \/ /\ e = "Other"
            /\ BailIo("scan", e, bytes_read, duration)
            /\ UNCHANGED <<bytes_read, duration, buffers, pulled, block_start,
                           blocks, zeros, following>>
    /\ UNCHANGED others

(***************************************************************************)
(* lib.rs 251-258: one pass of the loop that skips bytes of 0x00.  Its     *)
(* `break` on end-of-stream leaves only the while loop: the read of line   *)
(* 260 comes next.                                                         *)
(***************************************************************************)
ReadFirstByte ==
    /\ pc = "scan"
    /\ \E e \in ReadOutcomes(1) :
         \/ /\ e = "Ok"
            /\ \E b \in FirstBytes :
                 /\ b = 0 => zeros < MaxZeros
                 /\ b # 0 => bytes_read <= MaxOffset
                 /\ header_buffer' = [header_buffer EXCEPT ![1] = b]
                 /\ zeros' = IF b = 0 THEN zeros + 1 ELSE zeros
                 /\ block_start' = IF b = 0 THEN block_start ELSE pulled
                 /\ pc' = IF b = 0 THEN "scan" ELSE "header"
            /\ bytes_read' = bytes_read + 1
            /\ pulled' = pulled + 1
            /\ UNCHANGED <<duration, xing_buffer, id3v2, ape_header, result,
                           src_eof, eof_at, io_fault, blocks, following>>
         \/ /\ e = "UnexpectedEof"
            /\ pc' = "header"
            /\ src_eof' = TRUE
            /\ eof_at' = "scan"
            /\ UNCHANGED io_fault
            /\ UNCHANGED <<bytes_read, duration, buffers, result, pulled,
                           block_start, blocks, zeros, following>>
         \/ /\ e = "Other"
            /\ BailIo("scan", e, bytes_read, duration)
            /\ UNCHANGED <<bytes_read, duration, buffers, pulled, block_start,
                           blocks, zeros, following>>
    /\ UNCHANGED others

(***************************************************************************)
(* lib.rs 260-265: the other 3 bytes of the header.  End-of-stream leaves  *)
(* the outer loop, and from_read returns Ok(duration) (line 440).          *)
(***************************************************************************)
\* HeaderEof that bails instead of leaving the loop
HeaderEofBails ==
    /\ pc' = "failed"
    /\ result' = Failure("header", "UnexpectedEOF", 0, <<>>, bytes_read, duration)

\* lib.rs 262, 440: `break`, then Ok(duration)
HeaderEof ==
    /\ pc' = "done"
    /\ result' = Success("header", duration)

ReadHeaderRest ==
    /\ pc = "header"
    /\ \E e \in ReadOutcomes(3) :
         \/ /\ e = "Ok"
            /\ \E h \in Headers :
                 /\ h[1] = header_buffer[1]
                 /\ header_buffer' = h
            /\ bytes_read' = bytes_read + 3
            /\ pulled' = pulled + 3
            /\ pc' = "classify"
            /\ UNCHANGED <<duration, xing_buffer, id3v2, ape_header, result,
                           ghosts>>
         \/ /\ e = "UnexpectedEof"
            /\ HeaderEof
            /\ src_eof' = TRUE
            /\ eof_at' = IF eof_at = "none" THEN "header" ELSE eof_at
            /\ UNCHANGED io_fault
            /\ UNCHANGED <<bytes_read, duration, buffers, pulled, block_start,
                           blocks, zeros, following>>
         \/ /\ e = "Other"
            /\ BailIo("header", e, bytes_read, duration)
            /\ UNCHANGED <<bytes_read, duration, buffers, pulled, block_start,
                           blocks, zeros, following>>
    /\ UNCHANGED others

(***************************************************************************)
(* lib.rs 268-304, 370-372, 392-394, 404-407, 434-437: what the header is. *)
(* An audio header is decoded, and its version, sampling rate and layer    *)
(* are checked in this order.                                              *)
(***************************************************************************)
\* AfterHeader that looks up the samples per frame before the sampling rate
AfterHeaderLayerFirst(hb) ==
    IF is_mp3(hb)
    THEN IF ~VersionOf(hb).ok
         THEN VersionOf(hb)
         ELSE IF ~get_samples_per_frame(version(hb), layer(hb)).ok
              THEN get_samples_per_frame(version(hb), layer(hb))
              ELSE IF ~get_sampling_rate(version(hb), encoded_sampling_rate(hb)).ok
                   THEN get_sampling_rate(version(hb), encoded_sampling_rate(hb))
                   ELSE Ok("side")
    ELSE IF is_id3v2(hb) THEN Ok("id3v2")
    ELSE IF is_id3v1(hb) THEN Ok("id3v1")
    ELSE IF maybe_is_ape_v2(hb) THEN Ok("ape")
    ELSE Err("UnexpectedFrame", 0)

AfterHeader(hb) ==
    IF is_mp3(hb)
    THEN IF ~VersionOf(hb).ok
         THEN VersionOf(hb)
         ELSE IF ~get_sampling_rate(version(hb), encoded_sampling_rate(hb)).ok
              THEN get_sampling_rate(version(hb), encoded_sampling_rate(hb))
              ELSE IF ~get_samples_per_frame(version(hb), layer(hb)).ok
                   THEN get_samples_per_frame(version(hb), layer(hb))
                   ELSE Ok("side")
    ELSE IF is_id3v2(hb) THEN Ok("id3v2")
    ELSE IF is_id3v1(hb) THEN Ok("id3v1")
    ELSE IF maybe_is_ape_v2(hb) THEN Ok("ape")
    ELSE Err("UnexpectedFrame", 0)

Classify ==
    /\ pc = "classify"
    /\ LET next == AfterHeader(header_buffer)
       IN  \/ /\ next.ok
              /\ pc' = next.value
              /\ UNCHANGED result
           \/ /\ ~next.ok
              /\ next.kind = "UnexpectedFrame"
              /\ Bail("classify", "UnexpectedFrame", 0, header(header_buffer),
                      bytes_read - 4, duration)
           \/ /\ ~next.ok
              /\ next.kind # "UnexpectedFrame"
              /\ Bail("classify", next.kind, next.code, <<>>, bytes_read, duration)
    /\ UNCHANGED <<bytes_read, duration, buffers, pulled, ghosts>>
    /\ UNCHANGED others

(***************************************************************************)
(* lib.rs 306-312: the side information is read into dump.                 *)
(***************************************************************************)
ReadSideInformation ==
    /\ pc = "side"
    /\ \E e \in ReadOutcomes(xing_offset(header_buffer)) :
         \/ /\ e = "Ok"
            /\ pulled' = pulled + xing_offset(header_buffer)
            /\ pc' = "peek"
            /\ UNCHANGED <<result, src_eof, eof_at, io_fault>>
         \/ /\ e # "Ok"
            /\ BailIo("side", e, bytes_read, duration)
            /\ UNCHANGED pulled
    /\ UNCHANGED <<bytes_read, duration, buffers, block_start, blocks, zeros,
                   following>>
    /\ UNCHANGED others

(***************************************************************************)
(* lib.rs 314-316: the 12 bytes where a Xing/Info block would start.       *)
(***************************************************************************)
ReadXingBuffer ==
    /\ pc = "peek"
    /\ \E e \in ReadOutcomes(12) :
         \/ /\ e = "Ok"
            /\ \E xb \in XingBuffers : xing_buffer' = xb
            /\ pulled' = pulled + 12
            /\ pc' = "measure"
            /\ UNCHANGED <<result, src_eof, eof_at, io_fault>>
         \/ /\ e # "Ok"
            /\ BailIo("peek", e, bytes_read + xing_offset(header_buffer), duration)
            /\ UNCHANGED <<pulled, xing_buffer>>
    /\ UNCHANGED <<bytes_read, duration, header_buffer, id3v2, ape_header,
                   block_start, blocks, zeros, following>>
    /\ UNCHANGED others

(***************************************************************************)
(* The durations the scan can compute, over the sample counts and rates of *)
(* the tables and the frame counts a Xing/Info block can hold here: each   *)
(* is frame_duration or XingDuration of its arguments, worked out once.    *)
(***************************************************************************)
SamplesPerFrameValues ==
    {SAMPLES_PER_FRAME[v][l] : v \in 1..3, l \in 1..4} \ {0}
SamplingRateValues == {SAMPLING_RATES[v][r] : v \in 1..3, r \in 1..3}
NumFramesValues == {num_frames(xb) : xb \in XingBuffers}

FrameDurations ==
    [s \in SamplesPerFrameValues, r \in SamplingRateValues |-> frame_duration(s, r)]
XingDurations ==
    [n \in NumFramesValues, s \in SamplesPerFrameValues, r \in SamplingRateValues
        |-> XingDuration(n, s, r)]
XingOverflowing ==
    {<<n, s>> \in NumFramesValues \X SamplesPerFrameValues : XingOverflows(n, s)}

(***************************************************************************)
(* lib.rs 326-339: the frame count of a Xing/Info block gives the duration *)
(* and from_read returns.  billion * frames_x_samples panics in a build    *)
(* with overflow checks when it does not fit 64 bits, and wraps in a build *)
(* without them.  The rest of the stream stays unread.                     *)
(***************************************************************************)
XingFastPath ==
    /\ pc = "measure"
    /\ HasFrameCount(xing_buffer)
    /\ LET nf == num_frames(xing_buffer)
           ns == num_samples(header_buffer)
           rate == sampling_rate(header_buffer)
       IN  \/ /\ pc' = "done"
              /\ result' = Success("xing", XingDurations[nf, ns, rate])
           \/ /\ <<nf, ns>> \in XingOverflowing
              /\ pc' = "panicked"
              /\ result' = [NoResult EXCEPT !.status = "panic", !.site = "xing"]
    /\ \E n \in 0..MaxFollowing : following' = n
    /\ UNCHANGED <<bytes_read, duration, buffers, pulled, src_eof, eof_at, io_fault,
                   block_start, blocks, zeros>>
    /\ UNCHANGED others

(***************************************************************************)
(* lib.rs 342-356: without a frame count the bitrate is looked up and the  *)
(* length of the frame is compared with what has been read of it.          *)
(***************************************************************************)
BitrateOf(hb) == get_bitrate(version(hb), layer(hb), encoded_bitrate(hb))

MeasureFrame ==
    /\ pc = "measure"
    /\ ~HasFrameCount(xing_buffer)
    /\ LET bitrate == BitrateOf(header_buffer)
       IN  \/ /\ ~bitrate.ok
              /\ Bail("bitrate", bitrate.kind, bitrate.code, <<>>, bytes_read, duration)
           \/ /\ bitrate.ok
              /\ ~bytes_to_next_frame(header_buffer, bitrate.value).ok
              /\ Bail("length", "MPEGFrameTooShort", 0, <<>>,
                      bytes_read + xing_offset(header_buffer) + 12, duration)
           \/ /\ bitrate.ok
              /\ bytes_to_next_frame(header_buffer, bitrate.value).ok
              /\ pc' = "body"
              /\ UNCHANGED result
    /\ UNCHANGED <<bytes_read, duration, buffers, pulled, ghosts>>
    /\ UNCHANGED others

(***************************************************************************)
(* lib.rs 358-366: the rest of the frame is skipped, and the frame counts. *)
(***************************************************************************)
SkipFrameBody ==
    /\ pc = "body"
    /\ LET hb == header_buffer
           bitrate == BitrateOf(hb).value
           advance == bytes_to_next_frame(hb, bitrate).value
       IN  \E e \in ReadOutcomes(advance) :
             \/ /\ e = "Ok"
                /\ pulled' = pulled + advance
                /\ bytes_read' = bytes_read + frame_length(hb, bitrate) - 4
                /\ duration' = DurationAdd(duration,
                        Dur(0, FrameDurations[num_samples(hb), sampling_rate(hb)]))
                /\ Continue("frame", pulled + advance)
                /\ UNCHANGED <<result, src_eof, eof_at, io_fault>>
             \/ /\ e # "Ok"
                /\ BailIo("body", e, bytes_read + xing_offset(hb) + 12, duration)
                /\ UNCHANGED <<bytes_read, duration, buffers, pulled, blocks>>
    /\ UNCHANGED <<block_start, zeros, following>>
    /\ UNCHANGED others

(***************************************************************************)
(* lib.rs 373-389: an ID3v2 tag.                                           *)
(***************************************************************************)
ReadId3v2Header ==
    /\ pc = "id3v2"
    /\ \E e \in ReadOutcomes(6) :
         \/ /\ e = "Ok"
            /\ \E b \in Id3v2Buffers : id3v2' = b
            /\ pulled' = pulled + 6
            /\ pc' = "id3v2skip"
            /\ UNCHANGED <<result, src_eof, eof_at, io_fault>>
         \/ /\ e # "Ok"
            /\ BailIo("id3v2", e, bytes_read, duration)
            /\ UNCHANGED <<pulled, id3v2>>
    /\ UNCHANGED <<bytes_read, duration, header_buffer, xing_buffer, ape_header,
                   block_start, blocks, zeros, following>>
    /\ UNCHANGED others

SkipId3v2 ==
    /\ pc = "id3v2skip"
    /\ LET advance == Id3TagSize(id3v2) + footer_size(id3v2)
       IN  \E e \in ReadOutcomes(advance) :
             \/ /\ e = "Ok"
                /\ pulled' = pulled + advance
                /\ bytes_read' = bytes_read + 6 + Id3TagSize(id3v2) + footer_size(id3v2)
                /\ Continue("id3v2", pulled + advance)
                /\ UNCHANGED <<result, src_eof, eof_at, io_fault>>
             \/ /\ e # "Ok"
                /\ BailIo("id3v2skip", e, bytes_read + 6, duration)
                /\ UNCHANGED <<bytes_read, buffers, pulled, blocks>>
    /\ UNCHANGED <<duration, block_start, zeros, following>>
    /\ UNCHANGED others

(***************************************************************************)
(* lib.rs 395-401: an ID3v1 tag, 128 bytes with the 4 already read.        *)
(***************************************************************************)
SkipId3v1 ==
    /\ pc = "id3v1"
    /\ \E e \in ReadOutcomes(128 - 4) :
         \/ /\ e = "Ok"
            /\ pulled' = pulled + (128 - 4)
            /\ bytes_read' = bytes_read + (128 - 4)
            /\ Continue("id3v1", pulled + (128 - 4))
            /\ UNCHANGED <<result, src_eof, eof_at, io_fault>>
         \/ /\ e # "Ok"
            /\ BailIo("id3v1", e, bytes_read, duration)
            /\ UNCHANGED <<bytes_read, buffers, pulled, blocks>>
    /\ UNCHANGED <<duration, block_start, zeros, following>>
    /\ UNCHANGED others

(***************************************************************************)
(* lib.rs 408-432: an APEv2 tag, once "AGEX" follows "APET".               *)
(***************************************************************************)
ReadApeHeader ==
    /\ pc = "ape"
    /\ \E e \in ReadOutcomes(12) :
         \/ /\ e = "Ok"
            /\ pulled' = pulled + 12
            /\ \E b \in ApeBuffers :
                 /\ ape_header' = b
                 /\ IF is_really_ape_v2(b)
                    THEN pc' = "apeskip" /\ UNCHANGED result
                    ELSE Bail("ape", "UnexpectedFrame", 0, header(header_buffer),
                              bytes_read - 4, duration)
            /\ UNCHANGED <<src_eof, eof_at, io_fault>>
         \/ /\ e # "Ok"
            /\ BailIo("ape", e, bytes_read, duration)
            /\ UNCHANGED <<pulled, ape_header>>
    /\ UNCHANGED <<bytes_read, duration, header_buffer, xing_buffer, id3v2,
                   block_start, blocks, zeros, following>>
    /\ UNCHANGED others

SkipApe ==
    /\ pc = "apeskip"
    /\ LET advance == ApeTagSize(ape_header) + 16
       IN  \E e \in ReadOutcomes(advance) :
             \/ /\ e = "Ok"
                /\ pulled' = pulled + advance
                /\ bytes_read' = bytes_read + 12 + ApeTagSize(ape_header) + 16
                /\ Continue("ape", pulled + advance)
                /\ UNCHANGED <<result, src_eof, eof_at, io_fault>>
             \/ /\ e # "Ok"
                /\ BailIo("apeskip", e, bytes_read, duration)
                /\ UNCHANGED <<bytes_read, buffers, pulled, blocks>>
    /\ UNCHANGED <<duration, block_start, zeros, following>>
    /\ UNCHANGED others

Next ==
    \/ ReadFirstByte
    \/ ReadHeaderRest
    \/ Classify
    \/ ReadSideInformation
    \/ ReadXingBuffer
    \/ XingFastPath
    \/ MeasureFrame
    \/ SkipFrameBody
    \/ ReadId3v2Header
    \/ SkipId3v2
    \/ SkipId3v1
    \/ ReadApeHeader
    \/ SkipApe

Spec == Init /\ [][Next]_vars

\* from_read runs on one thread and no read of a finite stream blocks for
\* ever: the call always takes its next step
FairSpec == Spec /\ WF_vars(Next)

(***************************************************************************)
(* The lookup functions and the computations of from_read that read no     *)
(* byte, each called once on arguments of its domain.                      *)
(***************************************************************************)
Versions == {Mpeg1, Mpeg2, Mpeg25}
Layers == {NotDefined, Layer1, Layer2, Layer3}
EncodedBitrates == 0..15
EncodedSamplingRates == 0..3

\* frame counts as u32, least significant byte first: 0, 1, 15242,
\* 16012798, 16012799, 32025598, 2^31, 2^32 - 1
FrameCountValues ==
    {<<0, 0, 0, 0>>, <<1, 0, 0, 0>>, <<138, 59, 0, 0>>, <<254, 85, 244, 0>>,
     <<255, 85, 244, 0>>, <<254, 171, 232, 1>>, <<0, 0, 0, 128>>,
     <<255, 255, 255, 255>>}

\* the headers classified on their own: every version, layer and
\* sampling-rate code, and headers that are no audio frame
ClassifiedHeaders ==
    {MkHeader(v, l, br, sr, 0, mode) :
        v \in 0..3, l \in 0..3, br \in {0, 9, 15}, sr \in 0..3, mode \in {0, 3}}
    \union {Id3v2Header, Id3v1Header, ApeHeader} \union JunkHeaders

Panic == Err("panic", 0)

Calls ==
    {[fn |-> "get_bitrate", args |-> <<v, l, b>>, ret |-> Pending] :
        v \in Versions, l \in Layers, b \in EncodedBitrates}
    \union
    {[fn |-> "get_samples_per_frame", args |-> <<v, l>>, ret |-> Pending] :
        v \in Versions, l \in Layers}
    \union
    {[fn |-> "get_sampling_rate", args |-> <<v, r>>, ret |-> Pending] :
        v \in Versions, r \in EncodedSamplingRates}
    \union
    {[fn |-> "xing_duration", args |-> <<n, v, l, r>>, ret |-> Pending] :
        n \in FrameCountValues, v \in Versions, l \in Layers \ {NotDefined},
        r \in 0..2}
    \union
    {[fn |-> "header", args |-> <<hb>>, ret |-> Pending] : hb \in ClassifiedHeaders}

LookupInit ==
    /\ ScanInit
    /\ call \in Calls
    /\ ContextIdle

Return(r) ==
    /\ call.ret = Pending
    /\ call' = [call EXCEPT !.ret = r]
    /\ UNCHANGED scan
    /\ UNCHANGED cursor

CallGetBitrate ==
    /\ call.fn = "get_bitrate"
    /\ Return(get_bitrate(call.args[1], call.args[2], call.args[3]))

CallGetSamplesPerFrame ==
    /\ call.fn = "get_samples_per_frame"
    /\ Return(get_samples_per_frame(call.args[1], call.args[2]))

CallGetSamplingRate ==
    /\ call.fn = "get_sampling_rate"
    /\ Return(get_sampling_rate(call.args[1], call.args[2]))

\* lib.rs 333-338 for a frame count and the samples per frame and sampling
\* rate of a version, layer and sampling-rate code
CallXingDuration ==
    /\ call.fn = "xing_duration"
    /\ LET nf == call.args[1]
           ns == get_samples_per_frame(call.args[2], call.args[3]).value
           rate == get_sampling_rate(call.args[2], call.args[4]).value
       IN  \/ Return(Ok(XingDuration(nf, ns, rate)))
           \/ /\ XingOverflows(nf, ns)
              /\ Return(Panic)

\* lib.rs 268-304, 370-437: what a header is taken for
CallAfterHeader ==
    /\ call.fn = "header"
    /\ Return(AfterHeader(call.args[1]))

LookupNext ==
    \/ CallGetBitrate
    \/ CallGetSamplesPerFrame
    \/ CallGetSamplingRate
    \/ CallXingDuration
    \/ CallAfterHeader

LookupSpec == LookupInit /\ [][LookupNext]_vars

(***************************************************************************)
(* context.rs: a Context on its own.  Its reader holds a number of bytes   *)
(* and delivers them in order; a read of the reader can also fail with an  *)
(* io::Error, of kind UnexpectedEof or of another kind (Interrupted is     *)
(* retried by read_exact and io::copy and never surfaces).  The caller     *)
(* calls read_exact and skip in any order and assigns the public field     *)
(* duration.                                                               *)
(***************************************************************************)
\* the durations the caller assigns
CallerDurations == {ZeroDuration, Dur(0, 26122448), Dur(1, 0)}

\* what the reader does when n bytes are pulled from it: it delivers them
\* all ("Ok"), it ends before the n-th ("Short"), or it raises an error
ReaderOutcomes(n) ==
    IF n = 0
    THEN {"Ok"}
    ELSE (IF reader >= n THEN {"Ok"} ELSE {"Short"}) \union {"UnexpectedEof", "Other"}

\* the bytes left in the reader afterwards
ReaderAfter(n, o) ==
    CASE o = "Ok" -> {reader - n}
      [] o = "Short" -> {0}
      [] OTHER -> {reader - k : k \in 0..(IF n < reader THEN n ELSE reader)}

ContextInit ==
    /\ ScanInit
    /\ call = NoCall
    /\ context = Context_new
    /\ reader \in 0..MaxReader
    /\ returned = NoReturn

\* context.rs 24-34: Context::read_exact(buffer) with buffer.len() = n.
\* Read::read_exact fails with UnexpectedEof when the reader ends early.
Context_read_exact ==
    /\ \E n \in 0..(MaxReader + 1) : \E o \in ReaderOutcomes(n) :
         LET e == IF o = "Short" THEN "UnexpectedEof" ELSE o
             after == [context EXCEPT
                          !.bytes_read = IF o = "Ok" THEN @ + n ELSE @,
                          !.reached_eof = (e = "UnexpectedEof")]
         IN  /\ context' = after
             /\ returned' =
                   [op |-> "read_exact", n |-> n,
                    fault |-> IF o \in {"Ok", "Short"} THEN "none" ELSE o,
                    result |-> IF o = "Ok"
                               THEN OkUnit
                               ELSE Context_error(after, ErrorKindFrom(e))]
             /\ reader' \in ReaderAfter(n, o)
    /\ UNCHANGED scan
    /\ UNCHANGED call

\* context.rs 36-49: Context::skip(num_bytes) with num_bytes = n.
\* io::copy returns Ok(number of bytes copied) or the error of the reader.
Context_skip ==
    /\ \E n \in 0..(MaxReader + 1) : \E o \in ReaderOutcomes(n) :
         /\ \/ /\ o \in {"UnexpectedEof", "Other"}
               /\ context' = context
               /\ returned' = [op |-> "skip", n |-> n, fault |-> o,
                               result |-> Context_error(context, ErrorKindFrom(o))]
            \/ /\ o = "Short"
               /\ context' = [context EXCEPT !.reached_eof = TRUE]
               /\ returned' = [op |-> "skip", n |-> n, fault |-> "none",
                               result |-> Context_error(context, "UnexpectedEOF")]
            \/ /\ o = "Ok"
               /\ context' = [context EXCEPT !.bytes_read = @ + n]
               /\ returned' = [op |-> "skip", n |-> n, fault |-> "none",
                               result |-> OkUnit]
         /\ reader' \in ReaderAfter(n, o)
    /\ UNCHANGED scan
    /\ UNCHANGED call

\* context.rs 11: the caller assigns ctx.duration and goes on
AssignDuration ==
    /\ \E d \in CallerDurations \ {context.duration} :
         context' = [context EXCEPT !.duration = d]
    /\ returned' = NoReturn
    /\ UNCHANGED reader
    /\ UNCHANGED scan
    /\ UNCHANGED call

ContextNext ==
    \/ Context_read_exact
    \/ Context_skip
    \/ AssignDuration

ContextSpec == ContextInit /\ [][ContextNext]_vars

(***************************************************************************)
(* What the properties speak of.                                           *)
(***************************************************************************)
\* the headers of the frames consumed completely
frames == [i \in 1..Len(SelectSeq(blocks, LAMBDA b : b.kind = "frame")) |->
              SelectSeq(blocks, LAMBDA b : b.kind = "frame")[i].header]

\* floor(r * 10^k / rate) for r < rate, by long division
RECURSIVE DecimalDigits(_, _, _)
DecimalDigits(r, rate, k) ==
    IF k = 0
    THEN 0
    ELSE ((10 * r) \div rate) * 10 ^ (k - 1) + DecimalDigits((10 * r) % rate, rate, k - 1)

\* floor(samples * 10^9 / rate) nanoseconds, as seconds and nanoseconds
ExactDuration(samples, rate) ==
    Dur(samples \div rate, DecimalDigits(samples % rate, rate, 9))

\* the duration of one frame: floor(samples_per_frame * 10^9 / sampling_rate) ns
FrameDurationOf(hb) == ExactDuration(num_samples(hb), sampling_rate(hb))

\* the sum of the durations of the frames of fs
RECURSIVE SumOfFrameDurations(_)
SumOfFrameDurations(fs) ==
    IF fs = <<>>
    THEN ZeroDuration
    ELSE DurationAdd(SumOfFrameDurations(SubSeq(fs, 1, Len(fs) - 1)),
                     FrameDurationOf(fs[Len(fs)]))

\* from_read has returned or panicked
Returned == pc \in {"done", "failed", "panicked"}

\* header_buffer holds the header of the block the scan is in, or ended in,
\* and the tests on it (Classify) have run
HeaderClassified ==
    \/ pc \in {"side", "peek", "measure", "body", "id3v2", "id3v2skip",
               "id3v1", "ape", "apeskip"}
    \/ Returned /\ result.site \notin {"scan", "header"}

\* the frame the scan is in went through the bitrate lookup and length check
FrameMeasured == pc = "body" \/ (Returned /\ result.site \in {"bitrate", "length", "body"})

\* the stream held nothing but frames of one header, and ended behind the last
ConstantBitrateStream ==
    /\ pc = "done"
    /\ eof_at = "scan"
    /\ zeros = 0
    /\ Len(blocks) >= 1
    /\ \A i \in 1..Len(blocks) :
         blocks[i].kind = "frame" /\ blocks[i].header = blocks[1].header

C2_XingReturnsAtOnce ==
    (Returned /\ result.site = "xing") =>
        /\ result.status = "Ok"
        /\ pulled = block_start + ConsumedInFrame(header_buffer)
        /\ result.duration = XingDuration(num_frames(xing_buffer),
                                          num_samples(header_buffer),
                                          sampling_rate(header_buffer))

(***************************************************************************)
(* C3.  When the source ends where the first byte of a header is looked    *)
(* for, from_read returns Ok with the duration accumulated so far: the sum *)
(* of the durations of the frames consumed.                                *)
(***************************************************************************)
C3_EndBetweenBlocksIsSuccess ==
    eof_at = "scan" =>
        /\ pc \in {"header", "done"}
        /\ pc = "done" =>
             /\ result.status = "Ok"
             /\ result.duration = duration
             /\ result.duration = SumOfFrameDurations(frames)

\* the end comes behind a frame and a skipped byte of 0x00
C3_Witness ==
    /\ pc = "done"
    /\ eof_at = "scan"
    /\ zeros >= 1
    /\ Len(frames) >= 1
    /\ result.status = "Ok"
    /\ result.duration # ZeroDuration

(***************************************************************************)
(* C4.  A stream that ends inside the body of an audio frame (in the side  *)
(* information, in the 12-byte block, or in the rest of the frame) fails   *)
(* with UnexpectedEOF, at the duration of the frames before that frame.    *)
(* This is the statement as claimed: it covers the frame that carries a    *)
(* Xing/Info frame count, whose rest is never read.                        *)
(***************************************************************************)
\* the stream ends in the rest of the frame on which the fast path returned
EndsInRestOfXingFrame ==
    /\ Returned
    /\ result.site = "xing"
    /\ BitrateOf(header_buffer).ok
    /\ following < frame_length(header_buffer, BitrateOf(header_buffer).value)
                      - ConsumedInFrame(header_buffer)

C5_PartialHeaderFails ==
    eof_at = "header" =>
        /\ pc = "failed"
        /\ result.kind = "UnexpectedEOF"

C7_OffsetIsBytesPulled ==
    pc = "failed" => result.offset = pulled

(***************************************************************************)
(* C8.  A frame without a Xing/Info frame count whose bitrate code is 0 or *)
(* 15 fails with InvalidBitrate carrying that code, for every version and  *)
(* every defined layer.                                                    *)
(***************************************************************************)
C8_ReservedBitrateFails ==
    (FrameMeasured /\ encoded_bitrate(header_buffer) \in {0, 15}) =>
        /\ pc = "failed"
        /\ result.kind = "InvalidBitrate"
        /\ result.code = encoded_bitrate(header_buffer)

(***************************************************************************)
(* C9.  The size of an ID3v2 tag is decoded from the low 7 bits of each of *)
(* its 4 size bytes, whatever the flags byte is.                           *)
(***************************************************************************)
SynchsafeSize(b3, b4, b5, b6) ==
    (b3 % 128) * Pow2(21) + (b4 % 128) * Pow2(14) + (b5 % 128) * Pow2(7) + (b6 % 128)

C9_SynchsafeSize ==
    pc = "id3v2skip" =>
        Id3TagSize(id3v2) = SynchsafeSize(id3v2[3], id3v2[4], id3v2[5], id3v2[6])

(***************************************************************************)
(* C10.  A header with the audio sync pattern and version bits 01 fails    *)
(* with ForbiddenVersion, whatever its other bits are, and no byte behind  *)
(* the header is pulled.                                                   *)
(***************************************************************************)
C10_ReservedVersionFails ==
    (HeaderClassified /\ is_mp3(header_buffer) /\ VersionBits(header_buffer) = 1) =>
        /\ pc = "failed"
        /\ result.site = "classify"
        /\ result.kind = "ForbiddenVersion"
        /\ pulled = block_start + 4

\* the layer, the bitrate code and the sampling-rate code are reserved too
C10_Witness ==
    /\ pc = "failed"
    /\ result.kind = "ForbiddenVersion"
    /\ VersionBits(header_buffer) = 1
    /\ LayerBits(header_buffer) = 0
    /\ encoded_bitrate(header_buffer) = 15
    /\ encoded_sampling_rate(header_buffer) = 3
    /\ zeros >= 1

UnexpectedFrameAt(site) ==
    /\ pc = "failed"
    /\ result.status = "Err"
    /\ result.site = site
    /\ result.kind = "UnexpectedFrame"
    /\ LimbsValue(SubSeq(result.header, 3, 4)) = 256 * header_buffer[1] + header_buffer[2]
    /\ LimbsValue(SubSeq(result.header, 1, 2)) = 256 * header_buffer[3] + header_buffer[4]
    /\ result.offset = block_start
    /\ result.at_duration = SumOfFrameDurations(frames)

C12_UnknownHeaderFails ==
    /\ ( /\ HeaderClassified
         /\ ~is_mp3(header_buffer)
         /\ ~is_id3v2(header_buffer)
         /\ ~is_id3v1(header_buffer)
         /\ ~maybe_is_ape_v2(header_buffer) ) =>
           /\ UnexpectedFrameAt("classify")
           /\ pulled = block_start + 4
    /\ (ape_header # <<>> /\ ~is_really_ape_v2(ape_header)) =>
           /\ UnexpectedFrameAt("ape")
           /\ pulled = block_start + 16

\* "APET" without "AGEX" behind a complete frame
C12_Witness ==
    /\ pc = "failed"
    /\ result.kind = "UnexpectedFrame"
    /\ result.site = "ape"
    /\ result.header = <<84, 69, 80, 65>>
    /\ Len(frames) = 1
    /\ result.offset = 26
    /\ result.at_duration = Dur(0, 26122448)

(***************************************************************************)
(* C13.  A tag is skipped whole and leaves the duration as it is: from the *)
(* first byte of its magic, an ID3v2 tag takes 10 + size + footer bytes    *)
(* (size from the low 7 bits of each size byte, footer 10 when bit 4 of    *)
(* the flags is set), an ID3v1 tag 128 bytes, and an APEv2 tag 32 + the    *)
(* little-endian value of bytes 13-16; the scan goes on with the byte next *)
(* to the tag.                                                             *)
(***************************************************************************)
\* a step that ends the tag the scan is in, n bytes from the start of the tag
TagTakes(n) ==
    /\ pulled' = block_start + n
    /\ bytes_read' = pulled'
    /\ duration' = duration
    /\ result' = result

C13_TagsAreSkippedWhole ==
    [][ /\ (pc = "id3v2skip" /\ pc' = "scan") =>
              TagTakes(10 + SynchsafeSize(id3v2[3], id3v2[4], id3v2[5], id3v2[6])
                          + (IF (id3v2[2] \div 16) % 2 = 1 THEN 10 ELSE 0))
        /\ (pc = "id3v1" /\ pc' = "scan") => TagTakes(128)
        /\ (pc = "apeskip" /\ pc' = "scan") =>
              TagTakes(32 + ape_header[9] + 256 * ape_header[10]
                          + 65536 * ape_header[11] + 16777216 * ape_header[12])
      ]_vars

(***************************************************************************)
(* C14.  Bytes of 0x00 in front of a block are skipped transparently: the  *)
(* outcome of a scan is that of the scan of the stream without them, with  *)
(* every error offset larger by their number.                              *)
(* In one scan: reading a byte of 0x00 adds 1 to bytes_read and changes    *)
(* nothing else that the scan decides on; the duration returned or         *)
(* reported is the sum over the frames consumed; and the offset of an      *)
(* error is the number of bytes of 0x00 skipped, plus the lengths of the   *)
(* blocks consumed, plus the place within the failing block at which the   *)
(* code reports the kind of error.                                         *)
(***************************************************************************)
RECURSIVE SumOfBlockLengths(_)
SumOfBlockLengths(bs) ==
    IF bs = <<>>
    THEN 0
    ELSE SumOfBlockLengths(SubSeq(bs, 1, Len(bs) - 1)) + bs[Len(bs)].last - bs[Len(bs)].first

\* where in the block that failed the error is reported, by what failed
OffsetInBlock ==
    CASE result.site = "scan" -> 0
      [] result.site = "header" -> 1
      [] result.kind = "UnexpectedFrame" -> 0
      [] result.site \in {"classify", "side", "bitrate", "id3v2", "id3v1", "ape", "apeskip"} -> 4
      [] result.site = "peek" -> 4 + xing_offset(header_buffer)
      [] result.site \in {"length", "body"} -> 4 + xing_offset(header_buffer) + 12
      [] result.site = "id3v2skip" -> 10

ZeroBytesAreTransparent ==
    /\ pc = "failed" =>
          /\ result.offset = zeros + SumOfBlockLengths(blocks) + OffsetInBlock
          /\ result.at_duration = SumOfFrameDurations(frames)
    /\ (pc = "done" /\ result.site = "header") =>
          result.duration = SumOfFrameDurations(frames)
    /\ HeaderClassified => block_start = zeros + SumOfBlockLengths(blocks)

C14_ZeroBytesAreSkipped ==
    /\ []ZeroBytesAreTransparent
    /\ [][ zeros' # zeros =>
             /\ zeros' = zeros + 1
             /\ bytes_read' = bytes_read + 1
             /\ pulled' = pulled + 1
             /\ pc = "scan" /\ pc' = "scan"
             /\ UNCHANGED <<duration, buffers, result, blocks>> ]_vars

\* an error behind a byte of 0x00, a frame and another byte of 0x00
C14_Witness ==
    /\ pc = "failed"
    /\ zeros = 2
    /\ Len(blocks) = 1
    /\ blocks[1].first = 1
    /\ result.kind = "ForbiddenLayer"
    /\ result.offset = 1 + 26 + 1 + 4

(***************************************************************************)
(* C15.  For every 32-bit frame count and every samples per frame S and    *)
(* sampling rate R of the tables, the Xing/Info duration is                *)
(* floor(frame_count * S / R) seconds and                                  *)
(* floor(frame_count * S * 10^9 / R) - 10^9 * seconds nanoseconds, below   *)
(* 10^9, and the computation stays within 64 bits.                         *)
(***************************************************************************)
\* quotient and remainder of n * s by r, for n given by its bytes 1..i from
\* the least significant one up, once its bytes above i gave q and rem
RECURSIVE DivideProduct(_, _, _, _, _, _)
DivideProduct(n, i, s, r, q, rem) ==
    IF i = 0
    THEN <<q, rem>>
    ELSE DivideProduct(n, i - 1, s, r,
                       256 * q + (256 * rem + n[i] * s) \div r,
                       (256 * rem + n[i] * s) % r)

\* floor(n * s / r) seconds and floor((n * s mod r) * 10^9 / r) nanoseconds
ExactXingDuration(n, s, r) ==
    LET qr == DivideProduct(n, Len(n), s, r, 0, 0)
    IN  Dur(qr[1], DecimalDigits(qr[2], r, 9))

C15_XingDurationIsExact ==
    (call.fn = "xing_duration" /\ call.ret # Pending) =>
        /\ call.ret.ok
        /\ call.ret.value =
              ExactXingDuration(call.args[1],
                                SAMPLES_PER_FRAME[call.args[2] + 1][call.args[3] + 1],
                                SAMPLING_RATES[call.args[2] + 1][call.args[4] + 1])
        /\ call.ret.value.nanos < 1000000000

(***************************************************************************)
(* C16.  Every scan of a finite stream ends: from_read returns Ok or Err.  *)
(* A stream of nothing but bytes of 0x00 ends with Ok and duration zero.   *)
(***************************************************************************)
C16_ScanTerminates ==
    /\ <>(pc \in {"done", "failed"})
    /\ []((pc = "done" /\ eof_at = "scan" /\ pulled = zeros) =>
             (result.status = "Ok" /\ result.duration = ZeroDuration))

(***************************************************************************)
(* C17.  Valid frames followed by a frame whose computed length is below   *)
(* what has been read of it: from_path returns Ok with the duration of the *)
(* frames before the short one, not an error.                              *)
(***************************************************************************)
C17_ShortFrameEndsTheMeasure ==
    ( /\ FrameMeasured
      /\ Len(frames) >= 1
      /\ BitrateOf(header_buffer).ok
      /\ frame_length(header_buffer, BitrateOf(header_buffer).value)
            < ConsumedInFrame(header_buffer) ) =>
        /\ pc = "done"
        /\ result.status = "Ok"
        /\ result.duration = SumOfFrameDurations(frames)

(***************************************************************************)
(* C18.  Context::read_exact(n) and Context::skip(n) keep one contract.    *)
(* When the reader delivers n bytes the call returns Ok and bytes_read     *)
(* grows by n.  When the reader ends before that, whether it delivers      *)
(* fewer bytes or reports UnexpectedEof, the call sets reached_eof and     *)
(* fails with UnexpectedEOF, bytes_read and duration stay, and the error   *)
(* carries them as offset and at_duration.  Any other error of the reader  *)
(* fails the call with IOError and bytes_read stays.                       *)
(***************************************************************************)
ReaderEnded ==
    \/ returned'.fault = "none" /\ reader < returned'.n
    \/ returned'.fault = "UnexpectedEof"

C18_ReadAndSkipShareAContract ==
    [][returned'.op \in {"read_exact", "skip"} =>
        /\ (returned'.fault = "none" /\ reader >= returned'.n) =>
              /\ returned'.result.ok
              /\ context'.bytes_read = context.bytes_read + returned'.n
        /\ ReaderEnded =>
              /\ context'.reached_eof
              /\ ~returned'.result.ok
              /\ returned'.result.kind = "UnexpectedEOF"
              /\ context'.bytes_read = context.bytes_read
              /\ context'.duration = context.duration
              /\ returned'.result.offset = context.bytes_read
              /\ returned'.result.at_duration = context.duration
        /\ returned'.fault = "Other" =>
              /\ ~returned'.result.ok
              /\ returned'.result.kind = "IOError"
              /\ context'.bytes_read = context.bytes_read]_vars

(***************************************************************************)
(* C19.  Once a read or skip of the scan has failed with an io::Error      *)
(* other than the end of the stream, at whatever place, from_read has      *)
(* returned an error of kind IOError made at that place, neither Ok nor    *)
(* UnexpectedEOF, and no byte has been pulled since.                       *)
(***************************************************************************)
C19_IoFaultEndsTheScan ==
    io_fault.site # "none" =>
        /\ pc = "failed"
        /\ result.status = "Err"
        /\ result.kind = "IOError"
        /\ result.site = io_fault.site
        /\ pulled = io_fault.pulled

\* the skip of the body of a second frame fails, behind a complete frame
C19_Witness ==
    /\ io_fault.site = "body"
    /\ Len(frames) = 1
    /\ io_fault.pulled >= 26
    /\ result.kind = "IOError"

(***************************************************************************)
(* C20.  The sampling-rate code 3 fails with InvalidSamplingRate carrying  *)
(* 3, in get_sampling_rate and for an audio header of any version but the  *)
(* reserved one; the codes 0, 1, 2 give 44100, 48000, 32000 Hz for MPEG 1, *)
(* half of that for MPEG 2 and a quarter for MPEG 2.5.                     *)
(***************************************************************************)
Mpeg1Rates == <<44100, 48000, 32000>>
RateDivisor(v) == CASE v = Mpeg1 -> 1 [] v = Mpeg2 -> 2 [] v = Mpeg25 -> 4

C20_ReservedSamplingRateFails ==
    /\ (call.fn = "get_sampling_rate" /\ call.ret # Pending) =>
          call.ret = IF call.args[2] = 3
                     THEN Err("InvalidSamplingRate", 3)
                     ELSE Ok(Mpeg1Rates[call.args[2] + 1] \div RateDivisor(call.args[1]))
    /\ ( /\ call.fn = "header"
         /\ call.ret # Pending
         /\ is_mp3(call.args[1])
         /\ VersionBits(call.args[1]) # 1
         /\ encoded_sampling_rate(call.args[1]) = 3 ) =>
           call.ret = Err("InvalidSamplingRate", 3)

\* an MPEG 2.5 header with the sampling-rate code 3 has been classified
C20_Witness ==
    /\ call.fn = "header"
    /\ is_mp3(call.args[1])
    /\ VersionBits(call.args[1]) = 0
    /\ encoded_sampling_rate(call.args[1]) = 3
    /\ call.ret = Err("InvalidSamplingRate", 3)

(***************************************************************************)
(* C21.  The accumulated duration is the sum, over the frames consumed     *)
(* completely, of floor(samples_per_frame * 10^9 / sampling_rate) ns.  It  *)
(* changes in no step but the one that ends a frame, and there it grows by *)
(* that amount for the frame; tags, bytes of 0x00 and frames that fail or  *)
(* are cut leave it alone.  Every error carries it as at_duration.         *)
(***************************************************************************)
DurationLess(a, b) ==
    a.secs < b.secs \/ (a.secs = b.secs /\ a.nanos < b.nanos)

DurationIsSumOfFrames ==
    /\ duration = SumOfFrameDurations(frames)
    /\ pc = "failed" => result.at_duration = SumOfFrameDurations(frames)

C21_DurationGrowsByWholeFrames ==
    /\ []DurationIsSumOfFrames
    /\ [][duration' # duration =>
            /\ pc = "body"
            /\ pc' = "scan"
            /\ Len(blocks') = Len(blocks) + 1
            /\ blocks'[Len(blocks')].kind = "frame"
            /\ blocks'[Len(blocks')].header = header_buffer
            /\ duration' = DurationAdd(duration, FrameDurationOf(header_buffer))
            /\ DurationLess(duration, duration')]_vars

\* a byte of 0x00 and a complete frame, then a frame cut in its side
\* information
C21_Witness ==
    /\ pc = "failed"
    /\ result.site = "side"
    /\ zeros = 1
    /\ Len(frames) = 1
    /\ result.at_duration = FrameDurationOf(frames[1])
    /\ result.at_duration # ZeroDuration

(***************************************************************************)
(* C22.  A frame whose 12-byte block starts with "Xing" or "Info" and has  *)
(* bit 0 of its 8th byte clear goes the way of every frame: the bitrate is *)
(* looked up and an error of the lookup is returned, a length below what   *)
(* was read fails with MPEGFrameTooShort, and otherwise the rest of the    *)
(* frame_length bytes is skipped, the duration of one frame is added and   *)
(* the scan goes on with the next block.  There is no fast return.         *)
(***************************************************************************)
TaggedWithoutCount ==
    /\ xing_buffer # <<>>
    /\ is_xing(xing_buffer) \/ is_info(xing_buffer)
    /\ xing_buffer[8] % 2 = 0

C22_XingWithoutCountIsAFrame ==
    [][TaggedWithoutCount =>
        /\ pc = "measure" =>
              LET rate == BIT_RATES[version(header_buffer) + 1]
                                   [layer(header_buffer) + 1]
                                   [encoded_bitrate(header_buffer) + 1]
                  len == ((num_samples(header_buffer) \div 8) * (1000 * rate))
                            \div sampling_rate(header_buffer)
                         + padding(header_buffer)
              IN  IF encoded_bitrate(header_buffer) = 15
                  THEN /\ pc' = "failed"
                       /\ result'.kind = "InvalidBitrate"
                       /\ result'.code = 15
                  ELSE IF len < ConsumedInFrame(header_buffer)
                  THEN /\ pc' = "failed"
                       /\ result'.kind = "MPEGFrameTooShort"
                  ELSE /\ pc' = "body"
                       /\ pulled' = pulled
        /\ (pc = "body" /\ pc' # "failed") =>
              /\ pc' = "scan"
              /\ pulled' = block_start
                              + frame_length(header_buffer, BitrateOf(header_buffer).value)
              /\ duration' = DurationAdd(duration, FrameDurationOf(header_buffer))
              /\ blocks' = Append(blocks, [kind |-> "frame", header |-> header_buffer,
                                           first |-> block_start, last |-> pulled'])]_vars

\* the frame count of an "Info" block without the flag has been passed over
C22_Witness ==
    /\ pc = "body"
    /\ is_info(xing_buffer)
    /\ xing_buffer[8] = 14
    /\ Len(frames) = 0

(***************************************************************************)
(* C23.  At the head of the loop bytes_read is the number of bytes pulled  *)
(* from the source, which is the number of bytes of 0x00 skipped plus the  *)
(* lengths of the blocks consumed.  A measured frame is                    *)
(* floor(floor(samples_per_frame / 8) * bitrate / sampling_rate) + padding *)
(* bytes long from the first byte of its header, an ID3v1 tag 128 bytes.   *)
(* From one head of the loop to the next bytes_read grows.                 *)
(***************************************************************************)
BytesOfFrame(hb) ==
    LET kbps == BIT_RATES[version(hb) + 1][layer(hb) + 1][encoded_bitrate(hb) + 1]
        eighth == SAMPLES_PER_FRAME[version(hb) + 1][layer(hb) + 1] \div 8
        rate == SAMPLING_RATES[version(hb) + 1][encoded_sampling_rate(hb) + 1]
    IN  (eighth * kbps * 1000) \div rate + (IF HeaderBit(hb, 9) = 1 THEN 1 ELSE 0)

CounterIsBytesPulled ==
    pc = "scan" =>
        /\ bytes_read = pulled
        /\ pulled = zeros + SumOfBlockLengths(blocks)
        /\ \A i \in 1..Len(blocks) :
              /\ blocks[i].kind = "frame" =>
                    blocks[i].last - blocks[i].first = BytesOfFrame(blocks[i].header)
              /\ blocks[i].kind = "id3v1" => blocks[i].last - blocks[i].first = 128
              /\ blocks[i].kind = "id3v2" => blocks[i].last - blocks[i].first >= 10
              /\ blocks[i].kind = "ape" => blocks[i].last - blocks[i].first >= 32

C23_LoopHeadCountsBytesPulled ==
    /\ []CounterIsBytesPulled
    /\ [][pc' = "scan" => bytes_read' > bytes_read]_vars

\* a byte of 0x00 and a frame of 26 bytes and a padding byte
C23_Witness ==
    /\ pc = "scan"
    /\ zeros = 1
    /\ Len(blocks) = 1
    /\ blocks[1].kind = "frame"
    /\ padding(blocks[1].header) = 1
    /\ bytes_read = 1 + 27

(***************************************************************************)
(* C24.  After a call of Context::read_exact or Context::skip, reached_eof *)
(* is true exactly when that call failed because the reader ended before   *)
(* the bytes asked for: it is false after a call that returned Ok and      *)
(* after a call that failed with another error.  (A call in which the      *)
(* reader itself reported UnexpectedEof is the case of C18 and is left out *)
(* here.)                                                                  *)
(***************************************************************************)
C24_ReachedEofTellsTheLastCall ==
    (returned.op \in {"read_exact", "skip"} /\ returned.fault # "UnexpectedEof") =>
        (context.reached_eof <=>
            (returned.fault = "none" /\ ~returned.result.ok))

(***************************************************************************)
(* C25.  Within one audio frame the checks run in a fixed order and the    *)
(* first one that fails is reported.  With only the 4 bytes of the header  *)
(* pulled: version bits 01 give ForbiddenVersion; otherwise sampling-rate  *)
(* code 3 gives InvalidSamplingRate; otherwise layer bits 00 give          *)
(* ForbiddenLayer.  A header that passed the three goes on to the read of  *)
(* the side information and then to the read of the 12 bytes behind it,    *)
(* where only an end of the stream or an I/O fault is reported.  After     *)
(* both reads a Xing/Info frame count ends the scan without a look at the  *)
(* bitrate; without one, bitrate code 15 gives InvalidBitrate, and         *)
(* otherwise a frame shorter than what was read gives MPEGFrameTooShort.   *)
(***************************************************************************)
PassedHeaderChecks(hb) ==
    /\ is_mp3(hb)
    /\ VersionBits(hb) # 1
    /\ encoded_sampling_rate(hb) # 3
    /\ LayerBits(hb) # 0

CountFound(xb) ==
    /\ xb # <<>>
    /\ SubSeq(xb, 1, 4) \in {XingMagic, InfoMagic}
    /\ xb[8] % 2 = 1

\* what has been reported, and where the scan stands, fits the order
ReportedInOrder ==
    /\ (pc = "failed" /\ result.kind = "ForbiddenVersion") =>
          /\ is_mp3(header_buffer)
          /\ VersionBits(header_buffer) = 1
          /\ pulled = block_start + 4
    /\ (pc = "failed" /\ result.kind = "InvalidSamplingRate") =>
          /\ is_mp3(header_buffer)
          /\ VersionBits(header_buffer) # 1
          /\ encoded_sampling_rate(header_buffer) = 3
          /\ result.code = 3
          /\ pulled = block_start + 4
    /\ (pc = "failed" /\ result.kind = "ForbiddenLayer") =>
          /\ is_mp3(header_buffer)
          /\ VersionBits(header_buffer) # 1
          /\ encoded_sampling_rate(header_buffer) # 3
          /\ LayerBits(header_buffer) = 0
          /\ pulled = block_start + 4
    /\ ( \/ pc \in {"side", "peek", "measure", "body"}
         \/ (Returned /\ result.site \in {"side", "peek", "xing", "bitrate",
                                          "length", "body"}) ) =>
          PassedHeaderChecks(header_buffer)
    /\ (pc = "side" \/ (pc = "failed" /\ result.site = "side")) =>
          pulled = block_start + 4
    /\ (pc = "failed" /\ result.site = "side") =>
          result.kind \in {"UnexpectedEOF", "IOError"}
    /\ (pc = "peek" \/ (pc = "failed" /\ result.site = "peek")) =>
          pulled = block_start + 4 + xing_offset(header_buffer)
    /\ (pc = "failed" /\ result.site = "peek") =>
          result.kind \in {"UnexpectedEOF", "IOError"}
    /\ (pc = "failed" /\ result.kind = "InvalidBitrate") =>
          /\ ~CountFound(xing_buffer)
          /\ encoded_bitrate(header_buffer) = 15
          /\ result.code = 15
          /\ pulled = block_start + ConsumedInFrame(header_buffer)
    /\ (pc = "failed" /\ result.kind = "MPEGFrameTooShort") =>
          /\ ~CountFound(xing_buffer)
          /\ encoded_bitrate(header_buffer) # 15
          /\ BytesOfFrame(header_buffer) < ConsumedInFrame(header_buffer)
          /\ pulled = block_start + ConsumedInFrame(header_buffer)
    /\ (Returned /\ result.site = "xing") =>
          /\ CountFound(xing_buffer)
          /\ pulled = block_start + ConsumedInFrame(header_buffer)

C25_FirstFailingCheckIsReported ==
    /\ []ReportedInOrder
    /\ [][/\ (pc = "classify" /\ is_mp3(header_buffer)) =>
                IF VersionBits(header_buffer) = 1
                THEN pc' = "failed" /\ result'.kind = "ForbiddenVersion"
                ELSE IF encoded_sampling_rate(header_buffer) = 3
                THEN pc' = "failed" /\ result'.kind = "InvalidSamplingRate"
                ELSE IF LayerBits(header_buffer) = 0
                THEN pc' = "failed" /\ result'.kind = "ForbiddenLayer"
                ELSE pc' = "side" /\ pulled' = pulled
          /\ pc = "side" =>
                \/ pc' = "peek"
                \/ pc' = "failed" /\ result'.site = "side"
          /\ pc = "peek" =>
                \/ pc' = "measure"
                \/ pc' = "failed" /\ result'.site = "peek"
          /\ pc = "measure" =>
                IF CountFound(xing_buffer)
                THEN pc' \in {"done", "panicked"} /\ result'.site = "xing"
                ELSE IF encoded_bitrate(header_buffer) = 15
                THEN pc' = "failed" /\ result'.kind = "InvalidBitrate"
                ELSE IF BytesOfFrame(header_buffer) < ConsumedInFrame(header_buffer)
                THEN pc' = "failed" /\ result'.kind = "MPEGFrameTooShort"
                ELSE pc' = "body" /\ pulled' = pulled]_vars

\* a header whose sampling-rate code, layer bits and bitrate code are all
\* refused ones has been reported for the sampling rate
C25_Witness ==
    /\ pc = "failed"
    /\ result.kind = "InvalidSamplingRate"
    /\ LayerBits(header_buffer) = 0
    /\ encoded_bitrate(header_buffer) = 15
    /\ pulled = block_start + 4

=============================================================================
